---- MODULE Spec2Model ----
(***************************************************************************)
(* Model of the Automation page (src/pages/3_Automation.py): the memoized  *)
(* fetch_country_data, the "Run Batch Analysis" loop and the PDF report;   *)
(* of Generate Choropleth map (src/pages/2_Geospatial_Analysis.py); and of *)
(* the scraping branch, the currency conversion and the text analysis of   *)
(* src/pages/1_Data_And_Text_Analysis.py.                                  *)
(*                                                                         *)
(* Numbers: every value of the source and every statistic is a fixed-point *)
(* number in thousandths (10.004 is 10004).  round(x, 2) therefore yields  *)
(* a multiple of 10.  A JSON value is <<>> for null and <<v>> for v.       *)
(* A "date" string is the tuple of its decimal digits.                     *)
(***************************************************************************)
EXTENDS Integers, Sequences, FiniteSets, TLC

VARIABLES
  source,             \* iso2 -> indicator code -> response of a request
  selected_indicator, \* the selectbox
  year_range,         \* the slider
  cache,              \* st.cache_data of fetch_country_data: arguments -> value
  session_state,      \* st.session_state
  pc,                 \* "idle", "running", "complete" or "failed" (raised)
  i,                  \* countries the loop has gone through
  results,            \* the list results
  full_series,        \* the dict full_series, as its items() in order
  progress,           \* the values given to the progress bar in this run
  runs,               \* presses of Run Batch Analysis
  history,            \* the tables every completed run has shown
  requests,           \* (iso2, code, year range) -> responses requests.get got
  pdf,                \* the report Generate PDF Report has built, while shown
  geo,                \* outcome of Generate Choropleth map (geospatial page)
  \* Data and Text Analysis page
  has_api,            \* the radio "Does your data source have an API?"
  wikipedia,          \* how en.wikipedia.org answers a request
  shown,              \* what the last script run showed for a pressed button
  from_code,          \* currency of the selectbox "From currency"
  to_code,            \* currency of the selectbox "To currency"
  amount,             \* the number input "Amount"
  frankfurter,        \* how api.frankfurter.app answers a request
  rate_cache,         \* st.cache_data of fetch_exchange_rate
  headlines,          \* the list headlines
  stopwords,          \* the set stopwords
  min_word_len,       \* the slider "Minimum word length to include"
  analysis,           \* what the script computed in Steps 1-4
  compounds,          \* VADER's compound score of every headline
  sentiment           \* what the script computed in Step 5

otherPagesVars ==
  <<source, selected_indicator, year_range, cache, session_state,
    pc, i, results, full_series, progress, runs, history,
    requests, pdf, geo>>

dataTextVars ==
  <<has_api, wikipedia, shown, from_code, to_code, amount, frankfurter,
    rate_cache, headlines, stopwords, min_word_len, analysis, compounds,
    sentiment>>

vars == <<otherPagesVars, dataTextVars>>

(***************************************************************************)
(* Bounds of the model.                                                    *)
(***************************************************************************)
NumCountries == 2
NumIndicators == 2
MaxRecords == 3
MaxRuns == 2

(***************************************************************************)
(* Configuration.                                                          *)
(***************************************************************************)
wb_countries ==
  << [name |-> "Albania", iso2 |-> "AL", iso3 |-> "ALB"],
     [name |-> "Bosnia and Herzegovina", iso2 |-> "BA", iso3 |-> "BIH"],
     [name |-> "Kosovo", iso2 |-> "XK", iso3 |-> "XKX"],
     [name |-> "Montenegro", iso2 |-> "ME", iso3 |-> "MNE"],
     [name |-> "North Macedonia", iso2 |-> "MK", iso3 |-> "MKD"],
     [name |-> "Serbia", iso2 |-> "RS", iso3 |-> "SRB"] >>

indicators ==
  << [name |-> "GDP per capita (current US$)", code |-> "NY.GDP.PCAP.CD"],
     [name |-> "Unemployment (% of labour force)", code |-> "SL.UEM.TOTL.ZS"],
     [name |-> "Inflation, consumer prices (%)", code |-> "FP.CPI.TOTL.ZG"] >>

\* The countries and indicators the model runs over: the first ones declared.
Configured == SubSeq(wb_countries, 1, NumCountries)
IndicatorNames == { indicators[k].name : k \in 1..NumIndicators }
IndicatorCode(name) ==
  indicators[CHOOSE k \in 1..Len(indicators) : indicators[k].name = name].code

SliderMin == 2010
SliderMax == 2023
DefaultYearRange == <<2016, 2023>>

\* Slider positions of the model: the default, the last year alone and the
\* year before it alone.
YearRanges == { DefaultYearRange, <<SliderMax, SliderMax>>,
                <<SliderMax - 1, SliderMax - 1>> }

(***************************************************************************)
(* Python values.                                                          *)
(***************************************************************************)
None == [None |-> TRUE]
Truthy(v) == v # None /\ v # <<>>

RECURSIVE IntOf(_)
\* int("2023"): the decimal number a digit string denotes.
IntOf(d) ==
  IF d = <<>> THEN 0
  ELSE 10 * IntOf(SubSeq(d, 1, Len(d) - 1)) + d[Len(d)]

RECURSIVE SeqSum(_)
SeqSum(s) == IF s = <<>> THEN 0 ELSE s[1] + SeqSum(Tail(s))

RECURSIVE SeqMin(_)
SeqMin(s) ==
  IF Len(s) = 1 THEN s[1]
  ELSE LET m == SeqMin(Tail(s)) IN IF s[1] <= m THEN s[1] ELSE m

RECURSIVE SeqMax(_)
SeqMax(s) ==
  IF Len(s) = 1 THEN s[1]
  ELSE LET m == SeqMax(Tail(s)) IN IF s[1] >= m THEN s[1] ELSE m

\* Round2 that cuts the digits off instead of rounding.
Round2_truncate(num, den) == 10 * (num \div (10 * den))

\* round(num / den, 2) in thousandths: the nearest multiple of 10, a tie going
\* to the even hundredth.
Round2(num, den) ==
  LET q == num \div (10 * den)
      rem == num - q * 10 * den
  IN IF 2 * rem < 10 * den THEN 10 * q
     ELSE IF 2 * rem > 10 * den THEN 10 * (q + 1)
     ELSE IF q % 2 = 0 THEN 10 * q ELSE 10 * (q + 1)

(***************************************************************************)
(* fetch_country_data.                                                     *)
(***************************************************************************)
RECURSIVE Records_from_year_before(_, _)
\* Records with the lower end of the range one year too low.
Records_from_year_before(items, yr) ==
  IF items = <<>> THEN <<>>
  ELSE LET r == items[1]
           rest == Records_from_year_before(Tail(items), yr)
       IN IF r.value # <<>> /\ yr[1] - 1 <= IntOf(r.date)
             /\ IntOf(r.date) <= yr[2]
          THEN <<[Year |-> IntOf(r.date), Value |-> r.value[1]]>> \o rest
          ELSE rest

RECURSIVE Records_truthy_value(_, _)
\* Records with "if r['value']" in place of "is not None": a 0 is dropped.
Records_truthy_value(items, yr) ==
  IF items = <<>> THEN <<>>
  ELSE LET r == items[1]
           rest == Records_truthy_value(Tail(items), yr)
       IN IF r.value # <<>> /\ r.value # <<0>> /\ yr[1] <= IntOf(r.date)
             /\ IntOf(r.date) <= yr[2]
          THEN <<[Year |-> IntOf(r.date), Value |-> r.value[1]]>> \o rest
          ELSE rest

\* The comprehension of lines 87-91: the records kept, in source order.
RECURSIVE Records(_, _)
Records(items, yr) ==
  IF items = <<>> THEN <<>>
  ELSE LET r == items[1]
           rest == Records(Tail(items), yr)
       IN IF r.value # <<>> /\ yr[1] <= IntOf(r.date) /\ IntOf(r.date) <= yr[2]
          THEN <<[Year |-> IntOf(r.date), Value |-> r.value[1]]>> \o rest
          ELSE rest

RECURSIVE InsertByYear(_, _)
InsertByYear(row, sorted) ==
  IF sorted = <<>> THEN <<row>>
  ELSE IF row.Year < sorted[1].Year THEN <<row>> \o sorted
  ELSE <<sorted[1]>> \o InsertByYear(row, Tail(sorted))

\* SortValuesYear left out: the rows stay in source order.
SortValuesYear_unsorted(rows) == rows

RECURSIVE SortValuesYear(_)
\* DataFrame.sort_values("Year"): ascending, equal years keep their order.
SortValuesYear(rows) ==
  IF rows = <<>> THEN <<>>
  ELSE InsertByYear(rows[Len(rows)],
                    SortValuesYear(SubSeq(rows, 1, Len(rows) - 1)))

ValuesOf(df) == [k \in 1..Len(df) |-> df[k].Value]

\* The dict of lines 98-106.
Summary(country_name, df) ==
  [Country |-> country_name,
   Mean |-> Round2(SeqSum(ValuesOf(df)), Len(df)),
   Min |-> Round2(SeqMin(ValuesOf(df)), 1),
   Max |-> Round2(SeqMax(ValuesOf(df)), 1),
   Latest_value |-> Round2(df[Len(df)].Value, 1),
   Latest_year |-> df[Len(df)].Year,
   _data |-> df]

\* not raw[1]: None or an empty list.
EmptyPage(page) == page.t = "null" \/ (page.t = "page" /\ page.items = <<>>)

\* The body of fetch_country_data on the response the request obtains:
\* raised is set when requests.get or response.json() raises.
FetchBody(resp, country_name, yr) ==
  IF resp.kind \in {"timeout", "invalid"} THEN [raised |-> TRUE]
  ELSE IF Len(resp.raw) < 2 \/ EmptyPage(resp.raw[2])
       THEN [raised |-> FALSE, value |-> None]
  ELSE LET records == Records(resp.raw[2].items, yr)
       IN IF records = <<>> THEN [raised |-> FALSE, value |-> None]
          ELSE [raised |-> FALSE,
                value |-> Summary(country_name, SortValuesYear(records))]

\* The arguments st.cache_data hashes.
CacheKey(c, indicator_code, yr) ==
  <<c.iso2, c.iso3, c.name, indicator_code, yr>>

\* A cache that keeps no None.
CacheStore_truthy_only(stored, key, value) ==
  IF value = [None |-> TRUE] THEN stored ELSE (key :> value) @@ stored

\* st.cache_data keeps what the function returned, whatever it is, with no
\* ttl and no max_entries.
CacheStore(stored, key, value) == (key :> value) @@ stored

\* The cache handing out the stored dict itself: the caller's pop reaches it.
StoredAfterPop_aliased(stored, popped) == popped

\* st.cache_data stores a copy of the returned dict and hands out a copy: what
\* the caller does to the dict it received (here: the entry it popped, leaving
\* the dict popped) never reaches the stored value.
StoredAfterPop(stored, popped) == stored

(***************************************************************************)
(* The data source: per country (iso2) and indicator code, the response    *)
(* the next request obtains.                                               *)
(***************************************************************************)
Date(y) == << y \div 1000, (y \div 100) % 10, (y \div 10) % 10, y % 10 >>
Meta == [t |-> "meta"]
Page(items) ==
  [kind |-> "json", status |-> 200,
   raw |-> <<Meta, [t |-> "page", items |-> items]>>]

Timeout == [kind |-> "timeout"]
InvalidBody == [kind |-> "invalid"]
ErrorPayload == [kind |-> "json", status |-> 200, raw |-> <<[t |-> "message"]>>]
NullPage == [kind |-> "json", status |-> 200, raw |-> <<Meta, [t |-> "null"]>>]
\* A non-success status with a JSON error body.
ServerError == [kind |-> "json", status |-> 503, raw |-> <<[t |-> "message"]>>]

\* Two pages as the source sends them, latest year first.
DataA == Page(<< [date |-> Date(2024), value |-> <<5000>>],
                 [date |-> Date(2023), value |-> <<20000>>],
                 [date |-> Date(2022), value |-> <<10000>>],
                 [date |-> Date(2015), value |-> <<0>>] >>)
DataB == Page(<< [date |-> Date(2023), value |-> <<>>],
                 [date |-> Date(2022), value |-> <<10006>>] >>)

SampleResponses == {Timeout, ErrorPayload, DataA, DataB}

RichDates == {Date(2015), Date(2022), Date(2023), Date(2024)}
RichValues == {<<>>, <<0>>, <<-1005>>, <<10006>>}
RichRecords == [date : RichDates, value : RichValues]
DistinctDates(items) ==
  \A j, k \in 1..Len(items) : j # k => items[j].date # items[k].date
RichPages ==
  { Page(items) : items \in
      { s \in UNION { [1..n -> RichRecords] : n \in 0..MaxRecords } :
          DistinctDates(s) } }
RichResponses ==
  {Timeout, InvalidBody, ErrorPayload, NullPage, ServerError} \cup RichPages

Iso2s == { Configured[k].iso2 : k \in 1..Len(Configured) }
Codes == { IndicatorCode(n) : n \in IndicatorNames }

(***************************************************************************)
(* The page.                                                               *)
(***************************************************************************)
Frac_one_ahead(num, den) == <<num + 1, den>>

Frac(num, den) == <<num, den>>

RECURSIVE Concat_reversed(_)
\* Concat with the frames taken last entry first.
Concat_reversed(series) ==
  IF series = <<>> THEN <<>>
  ELSE Concat_reversed(Tail(series))
       \o [k \in 1..Len(series[1].df) |->
             [Year |-> series[1].df[k].Year, Value |-> series[1].df[k].Value,
              Country |-> series[1].name]]

\* df.assign(Country = name) for every entry of full_series, concatenated.
RECURSIVE Concat(_)
Concat(series) ==
  IF series = <<>> THEN <<>>
  ELSE [k \in 1..Len(series[1].df) |->
          [Year |-> series[1].df[k].Year, Value |-> series[1].df[k].Value,
           Country |-> series[1].name]]
       \o Concat(Tail(series))

\* full_series[country_name] = df: a dict keeps the place of a key it has.
SetItem(series, name, df) ==
  IF \E j \in 1..Len(series) : series[j].name = name
  THEN [j \in 1..Len(series) |->
          IF series[j].name = name THEN [name |-> name, df |-> df]
          ELSE series[j]]
  ELSE Append(series, [name |-> name, df |-> df])

\* results = [result] in place of results.append(result).
results_append_overwrite(rows, result) == <<result>>

\* results.insert(0, result) in place of results.append(result).
results_append_front(rows, result) == <<result>> \o rows

\* results.append(result)
results_append(rows, result) == Append(rows, result)

\* result.pop("_data"): the dict without the entry.
Popped(result) == [f \in DOMAIN result \ {"_data"} |-> result[f]]

\* The request of one call: the arguments that name it and its log so far.
RequestOf(c, indicator_code, yr) == <<c.iso2, indicator_code, yr>>
Got(log, t) == IF t \in DOMAIN log THEN log[t] ELSE <<>>
Logged(log, t, resp) == (t :> Append(Got(log, t), resp)) @@ log

NoPdf == <<>>
NoGeo == [outcome |-> "none"]

(***************************************************************************)
(* Data and Text Analysis page: what the page shows when it is opened.     *)
(* An amount is a fixed-point number in hundredths, a rate one in          *)
(* thousandths; a compound score and a rounded score are fixed-point       *)
(* numbers in ten-thousandths.  A word and a text are sequences of         *)
(* characters.                                                             *)
(***************************************************************************)
LowerLetters ==
  <<"a", "b", "c", "d", "e", "f", "g", "h", "i", "j", "k", "l", "m",
    "n", "o", "p", "q", "r", "s", "t", "u", "v", "w", "x", "y", "z">>
UpperLetters ==
  <<"A", "B", "C", "D", "E", "F", "G", "H", "I", "J", "K", "L", "M",
    "N", "O", "P", "Q", "R", "S", "T", "U", "V", "W", "X", "Y", "Z">>
Digits == {"0", "1", "2", "3", "4", "5", "6", "7", "8", "9"}
IsLower(ch) == \E k \in 1..26 : LowerLetters[k] = ch
IsUpper(ch) == \E k \in 1..26 : UpperLetters[k] = ch
\* \w of the regex: a letter, a digit or the underscore.
IsWordChar(ch) == IsLower(ch) \/ IsUpper(ch) \/ ch \in Digits \/ ch = "_"

\* str.lower()
Lower(text) ==
  [k \in 1..Len(text) |->
     IF IsUpper(text[k])
     THEN LowerLetters[CHOOSE j \in 1..26 : UpperLetters[j] = text[k]]
     ELSE text[k]]

\* " ".join(list)
RECURSIVE Join(_)
Join(list) ==
  IF list = <<>> THEN <<>>
  ELSE IF Len(list) = 1 THEN list[1]
  ELSE list[1] \o <<" ">> \o Join(Tail(list))

\* re.findall(r'\b[a-z]+\b', text): a match is a maximal run of \w
\* characters made of lowercase letters only (inside a run that holds a
\* digit, an underscore or a capital no position has both word boundaries).
\* run is the run of \w characters read so far.
RECURSIVE findall(_, _)
findall(text, run) ==
  LET match == IF run # <<>> /\ \A k \in 1..Len(run) : IsLower(run[k])
               THEN <<run>> ELSE <<>>
  IN IF text = <<>> THEN match
     ELSE IF IsWordChar(text[1])
          THEN findall(Tail(text), Append(run, text[1]))
          ELSE match \o findall(Tail(text), <<>>)

\* Lines 369-370.
AllTokens(list) == findall(Lower(Join(list)), <<>>)

\* A filter that asks for more than the minimum length.
TokensClean_longer(tokens, stop, min_len) ==
  SelectSeq(tokens, LAMBDA t : t \notin stop /\ Len(t) > min_len)

\* Line 400.
TokensClean(tokens, stop, min_len) ==
  SelectSeq(tokens, LAMBDA t : t \notin stop /\ Len(t) >= min_len)

\* collections.Counter(list): one more for every element in turn.
RECURSIVE Counter(_)
Counter(list) ==
  IF list = <<>> THEN <<>>
  ELSE LET before == Counter(SubSeq(list, 1, Len(list) - 1))
           x == list[Len(list)]
       IN (x :> (IF x \in DOMAIN before THEN before[x] + 1 ELSE 1)) @@ before

\* Line 479: list(zip(tokens_clean, tokens_clean[1:])).
Bigrams(tokens) == [k \in 1..(Len(tokens) - 1) |-> <<tokens[k], tokens[k + 1]>>]

\* Steps 1-4 of the script (lines 369-480).
Analysis(list, stop, min_len) ==
  LET all_tokens == AllTokens(list)
      tokens_clean == TokensClean(all_tokens, stop, min_len)
      bigrams == Bigrams(tokens_clean)
  IN [run |-> TRUE,
      all_tokens |-> all_tokens,
      tokens_clean |-> tokens_clean,
      counts |-> Counter(tokens_clean),
      bigrams |-> bigrams,
      bigram_counts |-> Counter(bigrams)]

\* Lines 578-587: a metric counts the rows whose rounded Score lies in a
\* range (low and high are <<>> where the range is open).
Metric(data, label, low, high) ==
  Cardinality({k \in 1..Len(data) :
                 /\ low = <<>> \/ low[1] <= data[k].Score
                 /\ high = <<>> \/ data[k].Score <= high[1]})

\* round(compound, 3) of a score in ten-thousandths: the nearest multiple
\* of 10.
Round3(compound) == Round2(compound, 1)

\* Lines 540-545, with 0.05 as 500 ten-thousandths.
Label(compound) ==
  IF compound > 500 THEN "Positive"
  ELSE IF compound < -500 THEN "Negative"
  ELSE "Neutral"

\* Step 5 of the script (lines 536-587); scores gives the compound score
\* polarity_scores returns for a headline.
Sentiment(list, scores) ==
  LET sentiment_data ==
        [k \in 1..Len(list) |->
           [Headline |-> list[k],
            Score |-> Round3(scores[list[k]]),
            Sentiment |-> Label(scores[list[k]])]]
  IN [run |-> TRUE,
      sentiment_data |-> sentiment_data,
      n_pos |-> Metric(sentiment_data, "Positive", <<501>>, <<>>),
      n_neu |-> Metric(sentiment_data, "Neutral", <<-500>>, <<500>>),
      n_neg |-> Metric(sentiment_data, "Negative", <<>>, <<-501>>)]

NoShown == [button |-> "none"]
NoAnalysis == [run |-> FALSE]
NoSentiment == [run |-> FALSE]
\* Wikipedia turns away a request that names no browser, and answers a
\* browser with a page of three tables, the third a country table that
\* lists the six countries.
WikipediaBlocked ==
  [naive |-> "403",
   browser |-> [kind |-> "html", status |-> 200, tables |-> 3, found |-> 0,
                balkans |-> 6]]
\* Frankfurter converts at a rate (in thousandths).
RateOf(rate) == [kind |-> "json", status |-> 200, rate |-> rate]

DataTextDefault ==
  /\ has_api = "Yes - Use the API"
  /\ shown = NoShown
  /\ from_code = "EUR" /\ to_code = "USD" /\ amount = 100000
  /\ rate_cache = <<>>
  /\ min_word_len = 4
  /\ analysis = NoAnalysis
  /\ sentiment = NoSentiment

\* The texts the page works on.
InitTextWith(list, stop, scores) ==
  /\ headlines = list
  /\ stopwords = stop
  /\ compounds = scores

\* The servers the page talks to.
WebWith(wiki, frank) ==
  /\ wikipedia = wiki
  /\ frankfurter = frank

NoText ==
  /\ InitTextWith(<<>>, {}, <<>>)
  /\ WebWith(WikipediaBlocked, RateOf(1100))

Idle ==
  /\ pc = "idle" /\ i = 0 /\ results = <<>> /\ full_series = <<>>
  /\ progress = <<>>

Common ==
  /\ selected_indicator = indicators[1].name
  /\ cache = <<>>
  /\ session_state = <<>>
  /\ Idle
  /\ runs = 0 /\ history = {}
  /\ requests = <<>>
  /\ pdf = NoPdf
  /\ geo = NoGeo
  /\ DataTextDefault

Init ==
  /\ \E r \in [Iso2s -> SampleResponses] :
       source = [c \in Iso2s |-> [code \in Codes |-> r[c]]]
  /\ year_range = DefaultYearRange
  /\ Common
  /\ NoText

\* A script run that does not press the button: nothing of the batch is shown.
Rerun ==
  /\ pc' = "idle" /\ i' = 0 /\ results' = <<>> /\ full_series' = <<>>
  /\ progress' = <<>>

SelectIndicator ==
  /\ pc # "running"
  /\ \E n \in IndicatorNames \ {selected_indicator} : selected_indicator' = n
  /\ Rerun
  /\ pdf' = NoPdf
  /\ UNCHANGED <<source, year_range, cache, session_state, runs, history,
                 requests, geo>>
  /\ UNCHANGED dataTextVars

SlideYearRange ==
  /\ pc # "running"
  /\ \E r \in YearRanges \ {year_range} : year_range' = r
  /\ Rerun
  /\ pdf' = NoPdf
  /\ UNCHANGED <<source, selected_indicator, cache, session_state, runs,
                 history, requests, geo>>
  /\ UNCHANGED dataTextVars

\* Lines 108-112: the button is pressed.
RunBatchAnalysis ==
  /\ pc # "running"
  /\ runs < MaxRuns
  /\ runs' = runs + 1
  /\ pc' = "running"
  /\ i' = 0
  /\ results' = <<>>
  /\ full_series' = <<>>
  /\ progress' = <<Frac(0, 1)>>
  /\ pdf' = NoPdf
  /\ UNCHANGED <<source, selected_indicator, year_range, cache, session_state,
                 history, requests, geo>>
  /\ UNCHANGED dataTextVars

\* A gate that looks for a key nothing stores.
ReportEnabled_other_key(ss) == "batch_result" \in DOMAIN ss

\* Line 180: the report section is offered once batch results are stored.
ReportEnabled(ss) == "batch_results" \in DOMAIN ss

\* A report that labels itself with what the selectors show now.
ReportInputs_from_widgets(ss, widget_indicator, widget_range) ==
  [summary_df |-> ss.batch_results,
   combined |-> ss.batch_series,
   indicator |-> widget_indicator,
   year_range |-> widget_range]

\* Lines 194-197: what the report is built from.
ReportInputs(ss, widget_indicator, widget_range) ==
  [summary_df |-> ss.batch_results,
   combined |-> ss.batch_series,
   indicator |-> ss.batch_indicator,
   year_range |-> ss.batch_year_range]

\* Lines 260-264: the header row, one cell per (width, header).
col_widths == <<55, 30, 30, 30, 30, 15>>
headers == <<"Country", "Mean", "Min", "Max", "Latest", "Year">>
HeaderRow == [k \in 1..Len(headers) |-> [w |-> col_widths[k], text |-> headers[k]]]

\* Lines 269-279: the cells of one data row in the order pdf.cell is called
\* (col_widths[1] of the code is col_widths[2] here); a cell carries the
\* column of the summary it prints with str() and the value printed.
DataRow(row) ==
  <<[w |-> col_widths[2], column |-> "Mean", value |-> row.Mean],
    [w |-> col_widths[1], column |-> "Country", value |-> row.Country],
    [w |-> col_widths[4], column |-> "Max", value |-> row.Max],
    [w |-> col_widths[3], column |-> "Min", value |-> row.Min],
    [w |-> col_widths[5], column |-> "Latest value", value |-> row.Latest_value],
    [w |-> col_widths[6], column |-> "Latest year", value |-> row.Latest_year]>>

\* Lines 199-287: the chart, the overview sentence and the summary table.
Document(in) ==
  [chart |-> [title |-> in.indicator, series |-> in.combined],
   overview |-> [indicator |-> in.indicator, period |-> in.year_range],
   header |-> HeaderRow,
   rows |-> [r \in 1..Len(in.summary_df) |-> DataRow(in.summary_df[r])]]

\* Lines 189-300: a script run with Generate PDF Report pressed; the batch
\* button is not pressed in that run, so nothing of the batch is shown.
GeneratePDFReport ==
  /\ pc # "running"
  /\ ReportEnabled(session_state)
  /\ Rerun
  /\ pdf' = Document(ReportInputs(session_state, selected_indicator, year_range))
  /\ UNCHANGED <<source, selected_indicator, year_range, cache, session_state,
                 runs, history, requests, geo>>
  /\ UNCHANGED dataTextVars

\* Lines 114-119: one iteration of the loop.
ProcessCountry ==
  /\ pc = "running"
  /\ i < Len(Configured)
  /\ LET c == Configured[i + 1]
         code == IndicatorCode(selected_indicator)
         key == CacheKey(c, code, year_range)
         hit == key \in DOMAIN cache
         call == IF hit THEN [raised |-> FALSE, value |-> cache[key]]
                 ELSE FetchBody(source[c.iso2][code], c.name, year_range)
     IN /\ progress' = Append(progress, Frac(i, Len(Configured)))
        /\ requests' =
             IF hit THEN requests
             ELSE Logged(requests, RequestOf(c, code, year_range),
                         source[c.iso2][code])
        /\ IF call.raised
           THEN /\ pc' = "failed"
                /\ UNCHANGED <<cache, i, results, full_series>>
           ELSE LET result == call.value IN
                IF ~Truthy(result)
                THEN /\ cache' = CacheStore(cache, key, result)
                     /\ i' = i + 1
                     /\ UNCHANGED <<pc, results, full_series>>
                ELSE IF "_data" \notin DOMAIN result
                THEN /\ pc' = "failed"
                     /\ cache' = CacheStore(cache, key, result)
                     /\ UNCHANGED <<i, results, full_series>>
                ELSE /\ cache' =
                          CacheStore(cache, key,
                                     StoredAfterPop(result, Popped(result)))
                     /\ full_series' =
                          SetItem(full_series, c.name, result._data)
                     /\ results' = results_append(results, Popped(result))
                     /\ i' = i + 1
                     /\ UNCHANGED pc
  /\ UNCHANGED <<source, selected_indicator, year_range, session_state, runs,
                 history, pdf, geo>>
  /\ UNCHANGED dataTextVars

\* Lines 121-148: the loop is over.
BatchComplete ==
  /\ pc = "running"
  /\ i = Len(Configured)
  /\ progress' = Append(progress, Frac(1, 1))
  /\ pc' = "complete"
  /\ LET summary_df == results
         combined == Concat(full_series)
     IN /\ session_state' =
             IF results # <<>>
             THEN [batch_results |-> summary_df,
                   batch_series |-> combined,
                   batch_indicator |-> selected_indicator,
                   batch_year_range |-> year_range] @@ session_state
             ELSE session_state
        /\ history' =
             history \cup
               {[indicator |-> selected_indicator,
                 year_range |-> year_range,
                 run |-> runs,
                 summary_df |-> summary_df,
                 combined |-> IF results # <<>> THEN combined ELSE <<>>]}
  /\ UNCHANGED <<source, selected_indicator, year_range, cache, i, results,
                 full_series, runs, requests, pdf, geo>>
  /\ UNCHANGED dataTextVars

Next ==
  \/ SelectIndicator
  \/ SlideYearRange
  \/ RunBatchAnalysis
  \/ ProcessCountry
  \/ BatchComplete

Spec == Init /\ [][Next]_vars

\* The page with its report section, against a source in which a country
\* times out, answers with an error payload or holds data.
ReportResponses == {Timeout, ErrorPayload, DataB}

InitReport ==
  /\ \E r \in [Iso2s -> ReportResponses] :
       source = [c \in Iso2s |-> [code \in Codes |-> r[c]]]
  /\ year_range = DefaultYearRange
  /\ Common
  /\ NoText

NextReport ==
  \/ Next
  \/ GeneratePDFReport

SpecReport == InitReport /\ [][NextReport]_vars

(***************************************************************************)
(* fetch_country_data on its own: any response for the first country, any  *)
(* slider position, one batch run.                                         *)
(***************************************************************************)
InitFetch ==
  /\ \E r \in RichResponses :
       source = [c \in Iso2s |->
                   [code \in Codes |->
                      IF c = Configured[1].iso2 THEN r ELSE DataA]]
  /\ year_range \in YearRanges
  /\ Common
  /\ NoText

NextFetch ==
  \/ (runs = 0 /\ RunBatchAnalysis)
  \/ ProcessCountry
  \/ BatchComplete

SpecFetch == InitFetch /\ [][NextFetch]_vars

\* Between two batch runs the source starts to answer differently for one
\* country, for the indicator the page asks for (a failure sets in, or the
\* source recovers).
SourceChange ==
  /\ pc # "running"
  /\ \E k \in 1..Len(Configured), r \in SampleResponses :
       /\ source[Configured[k].iso2][IndicatorCode(selected_indicator)] # r
       /\ source' =
            [source EXCEPT
               ![Configured[k].iso2][IndicatorCode(selected_indicator)] = r]
  /\ UNCHANGED <<selected_indicator, year_range, cache, session_state, pc, i,
                 results, full_series, progress, runs, history, requests,
                 pdf, geo>>
  /\ UNCHANGED dataTextVars

\* Batch runs of one indicator against a source that changes between the
\* runs.
InitSource ==
  /\ Common
  /\ source = [c \in Iso2s |-> [code \in Codes |-> ErrorPayload]]
  /\ year_range = DefaultYearRange
  /\ NoText

NextSource ==
  \/ RunBatchAnalysis
  \/ ProcessCountry
  \/ BatchComplete
  \/ SourceChange

SpecSource == InitSource /\ [][NextSource]_vars

(***************************************************************************)
(* Generate Choropleth map (src/pages/2_Geospatial_Analysis.py).  The page *)
(* has the same countries, indicator codes and year slider; its selectbox  *)
(* starts at the first indicator.                                          *)
(***************************************************************************)
\* Lines 80-91: the rows one response adds to all_data.  "Year" is str(year)
\* of a four-digit year, which sorts as the year does; round(value, 3)
\* keeps a value held in thousandths.
RECURSIVE ChoroplethRows(_, _, _)
ChoroplethRows(items, c, yr) ==
  IF items = <<>> THEN <<>>
  ELSE LET r == items[1]
           rest == ChoroplethRows(Tail(items), c, yr)
       IN IF r.value # <<>> /\ yr[1] <= IntOf(r.date) /\ IntOf(r.date) <= yr[2]
          THEN <<[Country |-> c.name, iso_code |-> c.iso3,
                  Year |-> IntOf(r.date), Value |-> r.value[1]]>> \o rest
          ELSE rest

\* Lines 71-91: the loop over the countries from country k on.  requests.get,
\* raise_for_status, response.json() and the index [1] raise.
RECURSIVE Collect(_, _, _, _)
Collect(k, all_data, indicator_code, yr) ==
  IF k > Len(Configured) THEN [raised |-> FALSE, all_data |-> all_data]
  ELSE LET c == Configured[k]
           resp == source[c.iso2][indicator_code]
       IN IF resp.kind \in {"timeout", "invalid"} THEN [raised |-> TRUE]
          ELSE IF resp.status \in 400..599 THEN [raised |-> TRUE]
          ELSE IF Len(resp.raw) < 2 THEN [raised |-> TRUE]
          ELSE IF EmptyPage(resp.raw[2])
               THEN Collect(k + 1, all_data, indicator_code, yr)
          ELSE Collect(k + 1,
                       all_data \o ChoroplethRows(resp.raw[2].items, c, yr),
                       indicator_code, yr)

\* Line 92: pd.DataFrame([]) has no column "Year", and sort_values raises
\* KeyError for it.
fetch_choropleth_data(indicator_code, yr) ==
  LET got == Collect(1, <<>>, indicator_code, yr)
  IN IF got.raised THEN [raised |-> TRUE]
     ELSE IF got.all_data = <<>> THEN [raised |-> TRUE]
     ELSE [raised |-> FALSE, df |-> SortValuesYear(got.all_data)]

\* Lines 94-147: the button and its try/except.
GenerateChoroplethMap ==
  /\ LET call == fetch_choropleth_data(indicators[1].code, year_range)
     IN geo' = IF call.raised THEN [outcome |-> "Failed to fetch"]
               ELSE IF call.df = <<>> THEN [outcome |-> "No data returned"]
               ELSE [outcome |-> "map", df |-> call.df]
  /\ UNCHANGED <<source, selected_indicator, year_range, cache, session_state,
                 pc, i, results, full_series, progress, runs, history,
                 requests, pdf>>
  /\ UNCHANGED dataTextVars

\* Line 67: the year slider of the geospatial page.
GeoSlideYearRange ==
  /\ \E yr \in YearRanges : year_range' = yr /\ yr # year_range
  /\ geo' = NoGeo
  /\ UNCHANGED <<source, selected_indicator, cache, session_state, pc, i,
                 results, full_series, progress, runs, history, requests, pdf>>
  /\ UNCHANGED dataTextVars

InitGeo ==
  /\ Common
  /\ year_range = DefaultYearRange
  /\ \E first \in RichResponses, rest \in {NullPage, DataB} :
       source = [c \in Iso2s |->
                  [code \in Codes |->
                    IF c = Configured[1].iso2 THEN first ELSE rest]]
  /\ NoText

NextGeo ==
  \/ GeoSlideYearRange
  \/ GenerateChoroplethMap

SpecGeo == InitGeo /\ [][NextGeo]_vars

(***************************************************************************)
(* Text analysis of the Data and Text Analysis page: every script run of   *)
(* the page computes Steps 1-5 anew.                                       *)
(***************************************************************************)
MinWordLenMin == 3
MinWordLenMax == 8
MaxHeadlines == 2

\* Headlines: two words; a capitalised word; a stopword between two words;
\* a token with digits and a short word; the empty headline.
SampleHeadlines ==
  { <<"r", "a", "t", "e", "s", " ", "r", "i", "s", "e">>,
    <<"G", "D", "P", " ", "g", "r", "o", "w", "t", "h">>,
    <<"r", "i", "s", "e", " ", "a", "s", " ", "i", "n", "t", "e", "r", "e", "s", "t">>,
    <<"g", "2", "0", " ", "u", "p", " ", "r", "a", "t", "e", "s">>,
    <<>> }

StopwordSets ==
  { {},
    {<<"a", "s">>},
    {<<"a", "s">>, <<"u", "p">>, <<"r", "a", "t", "e", "s">>} }

HeadlineLists(pool) ==
  UNION { [1..n -> pool] : n \in 0..MaxHeadlines }

\* Lines 369-587, run by every script run of the page.
TextAnalysis ==
  /\ analysis' = Analysis(headlines, stopwords, min_word_len')
  /\ sentiment' = Sentiment(headlines, compounds)

\* The page is opened: the first script run.
OpenDataTextPage ==
  /\ ~analysis.run
  /\ UNCHANGED <<has_api, wikipedia, shown, from_code, to_code, amount,
                 frankfurter, rate_cache, headlines, stopwords, min_word_len,
                 compounds>>
  /\ TextAnalysis
  /\ UNCHANGED otherPagesVars

\* Line 399: the slider is moved, the script runs again.
SlideMinWordLen ==
  /\ analysis.run
  /\ \E m \in MinWordLenMin..MinWordLenMax :
       m # min_word_len /\ min_word_len' = m
  /\ TextAnalysis
  /\ shown' = NoShown
  /\ UNCHANGED <<has_api, wikipedia, from_code, to_code, amount, frankfurter,
                 rate_cache, headlines, stopwords, compounds>>
  /\ UNCHANGED otherPagesVars

NextText ==
  \/ OpenDataTextPage
  \/ SlideMinWordLen

\* The other pages as they are when nothing was done on them.
OtherPagesDefault ==
  /\ Common
  /\ source = [c \in Iso2s |-> [code \in Codes |-> NullPage]]
  /\ year_range = DefaultYearRange

\* Steps 1-4 for every list of headlines and stopword set.
InitText ==
  /\ OtherPagesDefault
  /\ WebWith(WikipediaBlocked, RateOf(1100))
  /\ \E list \in HeadlineLists(SampleHeadlines), stop \in StopwordSets :
       InitTextWith(list, stop, [h \in SampleHeadlines |-> 0])

SpecText == InitText /\ [][NextText]_vars

\* Step 5 for every list of headlines and every compound score of a
\* headline; 0.05 is 500.
SampleCompounds == {-10000, -504, -500, 0, 500, 504, 10000}
ScoredHeadlines ==
  { h \in SampleHeadlines : h # <<>> /\ \A k \in 1..Len(h) : h[k] # "0" }

InitSentiment ==
  /\ OtherPagesDefault
  /\ WebWith(WikipediaBlocked, RateOf(1100))
  /\ \E list \in HeadlineLists(ScoredHeadlines),
         scores \in [ScoredHeadlines -> SampleCompounds] :
       InitTextWith(list, {}, scores)

NextSentiment == OpenDataTextPage

SpecSentiment == InitSentiment /\ [][NextSentiment]_vars

(***************************************************************************)
(* Currency conversion of the Data and Text Analysis page.                 *)
(***************************************************************************)
\* The first two of the six currencies; amounts 0, 0.5 and 1000.
SampleCurrencies == {"EUR", "USD"}
SampleAmounts == {0, 50, 100000}

\* Answers of api.frankfurter.app: no answer in time, a status of failure,
\* a body without rates, a conversion at a rate.
Unprocessable == [kind |-> "json", status |-> 422]
NoRates == [kind |-> "json", status |-> 200]
FrankfurterAnswers == {Timeout, Unprocessable, NoRates, RateOf(1100)}

\* num / den to the nearest integer, a tie going to the even one.
RoundDiv(num, den) ==
  LET q == num \div den
      rem == num - q * den
  IN IF 2 * rem < den THEN q
     ELSE IF 2 * rem > den THEN q + 1
     ELSE IF q % 2 = 0 THEN q ELSE q + 1

\* Lines 270-275; the server multiplies the amount by its rate.
fetch_exchange_rate(frank, to, amt) ==
  IF frank.kind # "json" THEN [raised |-> TRUE]
  ELSE IF frank.status \in 400..599 THEN [raised |-> TRUE]
  ELSE IF "rate" \in DOMAIN frank
       THEN [raised |-> FALSE,
             value |-> [rates |-> (to :> RoundDiv(amt * frank.rate, 1000)),
                        date |-> "date"]]
  ELSE [raised |-> FALSE, value |-> [message |-> "not found"]]

Failed(request) ==
  [button |-> "Convert Currency", outcome |-> "Conversion failed",
   request |-> request]

\* Lines 277-304: the button and its try/except.  converted / amount raises
\* ZeroDivisionError for the amount 0.0; the rate is shown with four
\* decimals (in ten-thousandths), the amounts with two (as they are held).
ConvertCurrency ==
  /\ analysis.run
  /\ UNCHANGED <<has_api, wikipedia, from_code, to_code, amount, frankfurter,
                 headlines, stopwords, min_word_len, compounds>>
  /\ TextAnalysis
  /\ IF from_code = to_code
     THEN /\ shown' = [button |-> "Convert Currency", outcome |-> "warning",
                       request |-> FALSE]
          /\ UNCHANGED rate_cache
     ELSE LET key == <<from_code, to_code, amount>>
              hit == key \in DOMAIN rate_cache
              call == IF hit THEN [raised |-> FALSE, value |-> rate_cache[key]]
                      ELSE fetch_exchange_rate(frankfurter, to_code, amount)
          IN IF call.raised
             THEN shown' = Failed(TRUE) /\ UNCHANGED rate_cache
             ELSE /\ rate_cache' = CacheStore(rate_cache, key, call.value)
                  /\ shown' =
                       IF "rates" \notin DOMAIN call.value THEN Failed(~hit)
                       ELSE IF amount = 0 THEN Failed(~hit)
                       ELSE LET converted == call.value.rates[to_code]
                            IN [button |-> "Convert Currency",
                                outcome |-> "converted",
                                request |-> ~hit,
                                rate |-> RoundDiv(converted * 10000, amount),
                                amount |-> amount,
                                converted |-> converted]
  /\ UNCHANGED otherPagesVars

\* Lines 261-267: a widget of the conversion is changed, the script runs
\* again.
ChangeConversion ==
  /\ analysis.run
  /\ \E f \in SampleCurrencies, t \in SampleCurrencies, a \in SampleAmounts :
       /\ <<f, t, a>> # <<from_code, to_code, amount>>
       /\ \/ f = from_code /\ t = to_code
          \/ f = from_code /\ a = amount
          \/ t = to_code /\ a = amount
       /\ from_code' = f /\ to_code' = t /\ amount' = a
  /\ shown' = NoShown
  /\ UNCHANGED <<has_api, wikipedia, frankfurter, rate_cache, headlines,
                 stopwords, min_word_len, compounds>>
  /\ TextAnalysis
  /\ UNCHANGED otherPagesVars

\* Line 269: ttl = 3600, an hour has passed.
RateCacheExpires ==
  /\ rate_cache # <<>>
  /\ rate_cache' = <<>>
  /\ UNCHANGED <<has_api, wikipedia, shown, from_code, to_code, amount,
                 frankfurter, headlines, stopwords, min_word_len, analysis,
                 compounds, sentiment>>
  /\ UNCHANGED otherPagesVars

InitConvert ==
  /\ OtherPagesDefault
  /\ InitTextWith(<<>>, {}, <<>>)
  /\ \E frank \in FrankfurterAnswers : WebWith(WikipediaBlocked, frank)

NextConvert ==
  \/ OpenDataTextPage
  \/ ChangeConversion
  \/ ConvertCurrency
  \/ RateCacheExpires

SpecConvert == InitConvert /\ [][NextConvert]_vars

(***************************************************************************)
(* The API and the scraping branch of the Data and Text Analysis page.     *)
(***************************************************************************)
HasApi == {"Yes - Use the API", "No - Scrape it instead"}

\* Answers of en.wikipedia.org to pd.read_html(url): tables, or a refusal.
NaiveAnswers == {"tables", "403"}
\* Answers to requests.get with a browser's User-Agent: no answer in time, a
\* refusal, or a page with so many tables, of which table `found` (0: none)
\* is the first large one with a country column, its rows naming `balkans`
\* of the six countries.
BrowserAnswers ==
  { [kind |-> "timeout"],
    [kind |-> "html", status |-> 403] }
  \cup { [kind |-> "html", status |-> 200, tables |-> n, found |-> f,
           balkans |-> b] :
           n \in {0, 1, 3}, f \in {0, 1}, b \in {0, 6} }

\* st.session_state[key] = value
SetState(ss, key, value) == (key :> value) @@ ss

\* A flag that a failed attempt takes back.
NaiveFlag_only_success(ss, answer) ==
  (("naive_scrape_run") :> (answer = "tables")) @@ ss

\* Lines 146 and 155: both the try and the except branch set the flag.
NaiveFlag(ss, answer) == SetState(ss, "naive_scrape_run", TRUE)

\* Line 158: st.session_state.get("naive_scrape_run", False).
FixedScrapeOffered(ss) ==
  IF "naive_scrape_run" \in DOMAIN ss THEN ss["naive_scrape_run"] ELSE FALSE

\* Line 20: the radio is switched, the script runs again.
ChooseHasApi ==
  /\ analysis.run
  /\ \E choice \in HasApi : choice # has_api /\ has_api' = choice
  /\ shown' = NoShown
  /\ UNCHANGED <<wikipedia, from_code, to_code, amount, frankfurter,
                 rate_cache, headlines, stopwords, min_word_len, compounds>>
  /\ TextAnalysis
  /\ UNCHANGED otherPagesVars

\* Lines 67-118 with the first country and the default year range: the
\* World Bank API answers somehow; a fetch that succeeds stores three keys.
\* (The answer is drawn at every press; a cached answer is one of them.)
FetchFromWorldBankAPI ==
  /\ analysis.run
  /\ has_api = "Yes - Use the API"
  /\ \E resp \in SampleResponses :
       LET raises == \/ resp.kind # "json"
                     \/ resp.status \in 400..599
                     \/ Len(resp.raw) < 2
                     \/ resp.raw[2].t # "page"
                     \/ Records(resp.raw[2].items, <<0, 9999>>) = <<>>
           fetched == SortValuesYear(Records(resp.raw[2].items, <<0, 9999>>))
           df == SelectSeq(fetched,
                           LAMBDA r : /\ r.Year >= DefaultYearRange[1]
                                      /\ r.Year <= DefaultYearRange[2])
       IN IF raises
          THEN /\ shown' = [button |-> "Fetch from World Bank API",
                            outcome |-> "API call failed"]
               /\ UNCHANGED session_state
          ELSE /\ shown' = [button |-> "Fetch from World Bank API",
                            outcome |-> "Fetched", records |-> Len(df)]
               /\ session_state' =
                    SetState(SetState(SetState(session_state, "api_df", df),
                                      "api_country", wb_countries[1].name),
                             "api_indicator", "GDP (US$)")
  /\ UNCHANGED <<has_api, wikipedia, from_code, to_code, amount, frankfurter,
                 rate_cache, headlines, stopwords, min_word_len, compounds>>
  /\ TextAnalysis
  /\ UNCHANGED <<source, selected_indicator, year_range, cache, pc, i,
                 results, full_series, progress, runs, history, requests,
                 pdf, geo>>

\* Lines 141-155: the naive attempt; Step 2 is drawn by the same script run.
ScrapeWikipedia ==
  /\ analysis.run
  /\ has_api = "No - Scrape it instead"
  /\ shown' = [button |-> "Scrape Wikipedia",
               outcome |-> IF wikipedia.naive = "tables"
                           THEN "Sometimes websites allow this"
                           ELSE "Failed"]
  /\ session_state' = NaiveFlag(session_state, wikipedia.naive)
  /\ UNCHANGED <<has_api, wikipedia, from_code, to_code, amount, frankfurter,
                 rate_cache, headlines, stopwords, min_word_len, compounds>>
  /\ TextAnalysis
  /\ UNCHANGED <<source, selected_indicator, year_range, cache, pc, i,
                 results, full_series, progress, runs, history, requests,
                 pdf, geo>>

\* Lines 177-217: requests.get, raise_for_status and pd.read_html (no table
\* in the page) raise, and so does tables[2] of fewer than three tables.
FixedScrape(answer) ==
  IF answer.kind = "timeout" THEN "Scraping failed"
  ELSE IF answer.status \in 400..599 THEN "Scraping failed"
  ELSE IF answer.tables = 0 THEN "Scraping failed"
  ELSE IF answer.found = 0 /\ answer.tables < 3 THEN "Scraping failed"
  ELSE IF answer.balkans = 0 THEN "showing top 30 instead"
  ELSE "Scraped and filtered"

RunFixedScraping ==
  /\ analysis.run
  /\ has_api = "No - Scrape it instead"
  /\ FixedScrapeOffered(session_state)
  /\ shown' = [button |-> "Run fixed scraping algorithm",
               outcome |-> FixedScrape(wikipedia.browser)]
  /\ UNCHANGED <<has_api, wikipedia, from_code, to_code, amount, frankfurter,
                 rate_cache, headlines, stopwords, min_word_len, compounds>>
  /\ TextAnalysis
  /\ UNCHANGED otherPagesVars

InitScrape ==
  /\ OtherPagesDefault
  /\ InitTextWith(<<>>, {}, <<>>)
  /\ \E n \in NaiveAnswers, b \in BrowserAnswers :
       WebWith([naive |-> n, browser |-> b], RateOf(1100))

NextScrape ==
  \/ OpenDataTextPage
  \/ ChooseHasApi
  \/ FetchFromWorldBankAPI
  \/ ScrapeWikipedia
  \/ RunFixedScraping
  \/ SlideMinWordLen

SpecScrape == InitScrape /\ [][NextScrape]_vars

TypeOK ==
  /\ pc \in {"idle", "running", "complete", "failed"}
  /\ i \in 0..Len(Configured)
  /\ runs \in 0..MaxRuns
  /\ selected_indicator \in IndicatorNames
  /\ year_range \in YearRanges
  /\ SliderMin <= year_range[1] /\ year_range[1] <= year_range[2]
  /\ year_range[2] <= SliderMax
  /\ \A t \in DOMAIN requests :
       t[1] \in Iso2s /\ t[2] \in Codes /\ Len(requests[t]) \in 1..MaxRuns
  /\ pdf = NoPdf \/ DOMAIN pdf = {"chart", "overview", "header", "rows"}
  /\ geo.outcome \in {"none", "Failed to fetch", "No data returned", "map"}

(***************************************************************************)
(* What the source holds, read off the response without the code's help.   *)
(***************************************************************************)
YearOfDate(d) == d[1] * 1000 + d[2] * 100 + d[3] * 10 + d[4]

\* The items of a response that answers with a page of records.
ItemsOf(resp) ==
  IF resp.kind = "json" /\ Len(resp.raw) >= 2 /\ resp.raw[2].t = "page"
  THEN resp.raw[2].items ELSE <<>>

\* The observations <<year, value>> with a value, inside the range.
Observations(resp, yr) ==
  { <<YearOfDate(ItemsOf(resp)[k].date), ItemsOf(resp)[k].value[1]>> :
      k \in { j \in 1..Len(ItemsOf(resp)) :
                /\ ItemsOf(resp)[j].value # <<>>
                /\ yr[1] <= YearOfDate(ItemsOf(resp)[j].date)
                /\ YearOfDate(ItemsOf(resp)[j].date) <= yr[2] } }

Raises(resp) == resp.kind # "json"

\* The k-th configured country in the present run.
KeyOf(k) ==
  CacheKey(Configured[k], IndicatorCode(selected_indicator), year_range)
RespOf(k) == source[Configured[k].iso2][IndicatorCode(selected_indicator)]
RowsOf(k) ==
  { j \in 1..Len(results) : results[j].Country = Configured[k].name }
SeriesOf(k) ==
  { j \in 1..Len(full_series) : full_series[j].name = Configured[k].name }

SetMax(S) == CHOOSE m \in S : \A x \in S : x <= m
SetMin(S) == CHOOSE m \in S : \A x \in S : m <= x
RECURSIVE SetSum(_)
SetSum(S) ==
  IF S = {} THEN 0 ELSE LET x == CHOOSE y \in S : TRUE IN x[2] + SetSum(S \ {x})

(***************************************************************************)
(* C1: in a batch run, a country whose fetch fails (timeout, unparseable   *)
(* payload) is skipped and the run goes on: the batch run never raises.    *)
(***************************************************************************)
C1_BatchNeverRaises == pc # "failed"

(***************************************************************************)
(* C2: when a country's series is empty (no records, or no record with a   *)
(* value inside the year range), fetch_country_data returns None without   *)
(* raising and the batch has no summary row and no series row for it.      *)
(***************************************************************************)
C2_EmptySeriesIsSkipped ==
  \A k \in 1..Len(Configured) :
    (~Raises(RespOf(k)) /\ Observations(RespOf(k), year_range) = {}) =>
      /\ ~(pc = "failed" /\ i = k - 1)
      /\ k <= i =>
           /\ KeyOf(k) \in DOMAIN cache
           /\ cache[KeyOf(k)] = None
           /\ RowsOf(k) = {}
           /\ SeriesOf(k) = {}
           /\ \A j \in 1..Len(Concat(full_series)) :
                Concat(full_series)[j].Country # Configured[k].name

C2_Witness ==
  /\ pc = "complete"
  /\ ItemsOf(RespOf(1)) # <<>>
  /\ Observations(RespOf(1), year_range) = {}
  /\ Len(results) = Len(Configured) - 1

(***************************************************************************)
(* C3: the series fetch_country_data summarizes holds exactly the source   *)
(* records with a value and a year inside the inclusive range, in          *)
(* ascending year order; a value of 0 is kept, and a record outside the    *)
(* range changes nothing in the summary.                                   *)
(***************************************************************************)
InRangeOnly(resp, yr) ==
  Page(SelectSeq(ItemsOf(resp),
                 LAMBDA it : yr[1] <= YearOfDate(it.date)
                             /\ YearOfDate(it.date) <= yr[2]))

C3_SeriesIsTheInRangeRecords ==
  \A k \in 1..i :
    LET v == cache[KeyOf(k)]
        obs == Observations(RespOf(k), year_range)
    IN /\ (v # None) <=> (obs # {})
       /\ v # None =>
            /\ { <<v._data[j].Year, v._data[j].Value>> :
                   j \in 1..Len(v._data) } = obs
            /\ Len(v._data) = Cardinality(obs)
            /\ \A j \in 1..(Len(v._data) - 1) :
                 v._data[j].Year < v._data[j + 1].Year
            /\ FetchBody(InRangeOnly(RespOf(k), year_range),
                         Configured[k].name, year_range).value = v

C3_Witness ==
  /\ i >= 1
  /\ year_range = DefaultYearRange
  /\ \E y \in {2022, 2023} : <<y, 0>> \in Observations(RespOf(1), year_range)
  /\ \E j \in 1..Len(ItemsOf(RespOf(1))) :
       /\ ItemsOf(RespOf(1))[j].date = Date(2024)
       /\ ItemsOf(RespOf(1))[j].value # <<>>
  /\ Len(cache[KeyOf(1)]._data) = 2
  /\ ItemsOf(RespOf(1))[1].date = Date(2023)

(***************************************************************************)
(* C4, as stated: for a non-empty series Mean is the arithmetic mean of    *)
(* the values, Min and Max their extrema and Latest value the value of the *)
(* observation of the greatest year, with no rounding applied.             *)
(***************************************************************************)
C4_StatisticsUnrounded ==
  \A k \in 1..i :
    LET v == cache[KeyOf(k)]
        obs == Observations(RespOf(k), year_range)
        vals == { o[2] : o \in obs }
        top == SetMax({ o[1] : o \in obs })
    IN v # None =>
         /\ v.Mean * Cardinality(obs) = SetSum(obs)
         /\ v.Min = SetMin(vals)
         /\ v.Max = SetMax(vals)
         /\ <<top, v.Latest_value>> \in obs
         /\ v.Latest_year = top

(***************************************************************************)
(* C4, amended: Mean, Min, Max and Latest value are the arithmetic mean,   *)
(* the extrema and the value of the observation of the greatest year, each *)
(* rounded to two decimal places (the nearest hundredth); Latest year is   *)
(* that greatest year.                                                     *)
(***************************************************************************)
\* r is num / den rounded to a hundredth (r and num in thousandths).
Hundredth(r, num, den) ==
  /\ r % 10 = 0
  /\ 2 * (r * den - num) <= 10 * den
  /\ 2 * (num - r * den) <= 10 * den

C4_StatisticsRoundedToHundredths ==
  \A k \in 1..i :
    LET v == cache[KeyOf(k)]
        obs == Observations(RespOf(k), year_range)
        vals == { o[2] : o \in obs }
        top == SetMax({ o[1] : o \in obs })
    IN v # None =>
         /\ Hundredth(v.Mean, SetSum(obs), Cardinality(obs))
         /\ Hundredth(v.Min, SetMin(vals), 1)
         /\ Hundredth(v.Max, SetMax(vals), 1)
         /\ \E o \in obs : o[1] = top /\ Hundredth(v.Latest_value, o[2], 1)
         /\ v.Latest_year = top

C4_Witness ==
  /\ i >= 1
  /\ Observations(RespOf(1), year_range) = {<<2022, 10006>>, <<2023, -1005>>}
  /\ cache[KeyOf(1)].Mean = 4500
  /\ cache[KeyOf(1)].Min = -1000
  /\ cache[KeyOf(1)].Max = 10010
  /\ cache[KeyOf(1)].Latest_value = -1000

Skipped == { k \in 1..Len(Configured) : cache[KeyOf(k)] = None }

C6_RowCount ==
  pc = "complete" =>
    /\ Len(results) = Len(Configured) - Cardinality(Skipped)
    /\ \A a, b \in 1..Len(results) :
         a # b => results[a].Country # results[b].Country
    /\ results # <<>> => session_state.batch_results = results

C6_Witness ==
  /\ pc = "complete"
  /\ Skipped # {}
  /\ Len(results) = Len(Configured) - 1
  /\ Len(results) >= 1

(***************************************************************************)
(* C7: the rows of the summary table stand in the order the countries are  *)
(* declared in wb_countries, the skipped ones left out, whatever the       *)
(* fetches returned.                                                       *)
(***************************************************************************)
ConfiguredNames == [k \in 1..Len(Configured) |-> Configured[k].name]
NameKey(name) ==
  KeyOf(CHOOSE k \in 1..Len(Configured) : Configured[k].name = name)

C7_DeclarationOrder ==
  pc \in {"running", "complete"} =>
    [j \in 1..Len(results) |-> results[j].Country] =
      SelectSeq(SubSeq(ConfiguredNames, 1, i),
                LAMBDA name : cache[NameKey(name)] # None)

C7_Witness ==
  /\ pc = "complete"
  /\ Len(results) = Len(Configured)
  /\ RespOf(1) # RespOf(2)
  /\ results[1].Mean # results[2].Mean

(***************************************************************************)
(* C8: after a completed batch run with a success the aggregate series     *)
(* table holds exactly one row (country, year, value) per observation of   *)
(* every summarized country's series and none for a skipped country,       *)
(* grouped by country in declaration order; its countries are those of the *)
(* summary table.                                                          *)
(***************************************************************************)
IndexOf(name) == CHOOSE k \in 1..Len(Configured) : Configured[k].name = name

C8_AggregateSeries ==
  (pc = "complete" /\ results # <<>>) =>
    LET combined == session_state.batch_series
    IN /\ \A k \in 1..Len(Configured) :
            LET v == cache[KeyOf(k)]
                rows == SelectSeq(combined,
                                  LAMBDA r : r.Country = Configured[k].name)
            IN IF v = None THEN rows = <<>>
               ELSE rows = [j \in 1..Len(v._data) |->
                              [Year |-> v._data[j].Year,
                               Value |-> v._data[j].Value,
                               Country |-> Configured[k].name]]
       /\ \A a, b \in 1..Len(combined) :
            a < b => IndexOf(combined[a].Country) <= IndexOf(combined[b].Country)
       /\ { combined[j].Country : j \in 1..Len(combined) } =
            { results[j].Country : j \in 1..Len(results) }

C8_Witness ==
  /\ pc = "complete"
  /\ Len(results) = 2
  /\ Len(session_state.batch_series) = 3
  /\ session_state.batch_series[1].Country = Configured[1].name
  /\ session_state.batch_series[3].Country = Configured[2].name

(***************************************************************************)
(* C9: two batch runs with the same indicator and year range show the same *)
(* summary table and aggregate series table (rows, order, values); popping *)
(* "_data" from a returned result in the first run changes nothing in what *)
(* the memoized fetch returns to the second.                               *)
(***************************************************************************)
SameInputs(h) ==
  h.indicator = selected_indicator /\ h.year_range = year_range

C9_RepeatedRunIdentical ==
  /\ \A a, b \in history :
       (a.indicator = b.indicator /\ a.year_range = b.year_range) =>
         /\ a.summary_df = b.summary_df
         /\ a.combined = b.combined
  /\ \A a \in history : SameInputs(a) => pc # "failed"
  /\ \A key \in DOMAIN cache :
       cache[key] # None => "_data" \in DOMAIN cache[key]

C9_Witness ==
  \E a, b \in history :
    /\ a.run # b.run
    /\ a.indicator = b.indicator
    /\ a.year_range = b.year_range
    /\ Len(b.summary_df) = 1
    /\ b.combined # <<>>

(***************************************************************************)
(* C10: in every batch run that is started the reported progress values    *)
(* never decrease and the last one reported is exactly 1.0, whatever each  *)
(* country's outcome (success, skip or fetch failure).                     *)
(***************************************************************************)
LeqFrac(a, b) == a[1] * b[2] <= b[1] * a[2]

C10_ProgressEndsAtOne ==
  pc \in {"complete", "failed"} =>
    /\ \A j \in 1..(Len(progress) - 1) : LeqFrac(progress[j], progress[j + 1])
    /\ progress[Len(progress)][1] = progress[Len(progress)][2]

(***************************************************************************)
(* C11: every progress value a batch reports equals the number of          *)
(* countries already processed (as a success or as a skip) over the number *)
(* of configured countries, and the value 1.0 is reported only after the   *)
(* last country has been processed.                                        *)
(***************************************************************************)
Processed == IF pc = "running" THEN i ELSE 0
Reported == progress'[Len(progress')]

C11_ProgressIsProcessedOverTotal ==
  [][(progress' # progress /\ progress' # <<>>) =>
       /\ Reported[1] * Len(Configured) = Processed * Reported[2]
       /\ Reported[1] = Reported[2] =>
            /\ pc = "running"
            /\ i = Len(Configured)
            /\ \A k \in 1..Len(Configured) : KeyOf(k) \in DOMAIN cache]_vars

C11_Witness ==
  /\ pc = "complete"
  /\ progress = <<Frac(0, 1)>>
                 \o [k \in 1..Len(Configured) |-> Frac(k - 1, Len(Configured))]
                 \o <<Frac(1, 1)>>
  /\ \E k \in 1..Len(Configured) : cache[KeyOf(k)] = None
  /\ \E k \in 1..Len(Configured) : cache[KeyOf(k)] # None

(***************************************************************************)
(* C12: a batch run follows Idle -> Running(i = 0..n) -> Complete: the     *)
(* countries are processed one at a time with the index growing by exactly *)
(* one per step, so each configured country is fetched exactly once per    *)
(* run; Complete is entered only after index n; and nothing leads from     *)
(* Complete back to Running but a new press of the button.                 *)
(***************************************************************************)
C12_RunStateMachine ==
  [][/\ pc = "running" =>
          \/ pc' = "running" /\ i' = i + 1 /\ i' <= Len(Configured)
          \/ pc' = "complete" /\ i' = i /\ i = Len(Configured)
     /\ (pc # "running" /\ pc' = "running") =>
          /\ i' = 0
          /\ runs' = runs + 1
     /\ (pc # "complete" /\ pc' = "complete") => pc = "running"]_vars

(***************************************************************************)
(* C13: a response with a non-success HTTP status, a JSON error body       *)
(* included, is signalled by the fetch as a source failure and is never    *)
(* returned as the empty series (None); None is returned only when the     *)
(* source answered successfully and holds no usable observation inside the *)
(* year range.                                                             *)
(***************************************************************************)
Success(resp) == resp.kind = "json" /\ resp.status \in 200..299

C13_NonSuccessIsSignalled ==
  \A k \in 1..Len(Configured) :
    (KeyOf(k) \in DOMAIN cache /\ cache[KeyOf(k)] = None) =>
      /\ Success(RespOf(k))
      /\ Observations(RespOf(k), year_range) = {}

(***************************************************************************)
(* C14: a completed batch reports for every configured country whether it  *)
(* succeeded or was skipped, and for every skipped country a reason that   *)
(* tells an empty series from an unavailable source.                       *)
(***************************************************************************)
\* What the output of a completed run (lines 121-134: the progress text, the
\* count of rows, the table and the chart) says of a country: a row of the
\* table, or nothing at all.
ReportOf(h, name) ==
  IF \E r \in 1..Len(h.summary_df) : h.summary_df[r].Country = name
  THEN [outcome |-> "succeeded"]
  ELSE [outcome |-> "unreported"]

C14_EveryCountryReported ==
  \A h \in history : \A k \in 1..Len(Configured) :
    LET report == ReportOf(h, Configured[k].name) IN
      \/ report.outcome = "succeeded"
      \/ /\ report.outcome = "skipped"
         /\ report.reason \in {"empty series", "source unavailable"}

(***************************************************************************)
(* C15: across the batch runs of a session, a fetch whose (country,        *)
(* indicator code, year range) is that of an earlier fetch that returned   *)
(* (a summary or the empty result) issues no new request and returns the   *)
(* same result; a fetch that raised is not memoized, so repeating it       *)
(* issues a new request.  Hence at most one request per tuple returned.    *)
(***************************************************************************)
\* The logged responses of a request from which the fetch returned.
ReturnedOf(log, t, name) ==
  { j \in 1..Len(Got(log, t)) : ~FetchBody(Got(log, t)[j], name, t[3]).raised }

C15_ReturnedFetchIsMemoized ==
  [][(pc = "running" /\ i < Len(Configured) /\ progress' # progress) =>
       LET c == Configured[i + 1]
           t == RequestOf(c, IndicatorCode(selected_indicator), year_range)
           earlier == ReturnedOf(requests, t, c.name)
       IN /\ earlier # {} =>
               LET j == CHOOSE j \in earlier : TRUE
                   same == FetchBody(requests[t][j], c.name, year_range).value
               IN /\ requests' = requests
                  /\ i' = i + 1
                  /\ IF same = None
                     THEN results' = results /\ full_series' = full_series
                     ELSE /\ results' = Append(results, Popped(same))
                          /\ full_series' =
                               SetItem(full_series, c.name, same._data)
          /\ earlier = {} =>
               requests' = Logged(requests, t, source[c.iso2][t[2]])
          /\ \A u \in DOMAIN requests' :
               Cardinality(ReturnedOf(requests', u, c.name)) <= 1]_vars

C15_Witness ==
  LET a == RequestOf(Configured[1], IndicatorCode(selected_indicator),
                     year_range)
      b == RequestOf(Configured[2], IndicatorCode(selected_indicator),
                     year_range)
  IN /\ pc = "complete" /\ runs = 2
     /\ a \in DOMAIN requests /\ b \in DOMAIN requests
     /\ Len(requests[a]) = 1
     /\ requests[a][1] = ErrorPayload
     /\ source[a[1]][a[2]] = DataA
     /\ Len(requests[b]) = 2
     /\ requests[b][1] = Timeout
     /\ requests[b][2] = DataB

(***************************************************************************)
(* C16: once Run Batch Analysis has run to completion in a session, PDF    *)
(* report generation is enabled, whatever the outcome of that batch, the   *)
(* one where every country was skipped included.                           *)
(***************************************************************************)
C16_ReportEnabledAfterAnyBatch ==
  history # {} => ReportEnabled(session_state)

(***************************************************************************)
(* C16, amended: PDF report generation is enabled exactly when some batch  *)
(* of the session has run to completion with at least one summarized       *)
(* country; a batch in which every country was skipped enables nothing.    *)
(***************************************************************************)
C16_ReportEnabledAfterRows ==
  /\ ReportEnabled(session_state) <=> \E h \in history : h.summary_df # <<>>
  /\ (pc # "running" /\ \E h \in history : h.summary_df # <<>>) =>
       ENABLED GeneratePDFReport
  /\ pdf # NoPdf => ReportEnabled(session_state)

C16_Witness ==
  /\ pc = "complete"
  /\ results = <<>>
  /\ ReportEnabled(session_state)
  /\ \E h, g \in history :
       h.run < g.run /\ h.summary_df # <<>> /\ g.summary_df = <<>>

(***************************************************************************)
(* C17: in every reachable state the four stored batch values are all      *)
(* absent, or all present and written by one batch run; a later run with   *)
(* no summary rows and any later change of the selectors leave the four    *)
(* unchanged, so a generated report labels its table and chart with the    *)
(* indicator and year range that produced them.                            *)
(***************************************************************************)
BatchKeys ==
  {"batch_results", "batch_series", "batch_indicator", "batch_year_range"}

\* The last completed run that had summary rows.
WrittenBy(h) ==
  /\ h.summary_df # <<>>
  /\ \A g \in history : g.summary_df # <<>> => g.run <= h.run

C17_StoredBatchIsOneRun ==
  /\ \/ DOMAIN session_state = {}
     \/ /\ DOMAIN session_state = BatchKeys
        /\ \E h \in history :
             /\ WrittenBy(h)
             /\ session_state.batch_results = h.summary_df
             /\ session_state.batch_series = h.combined
             /\ session_state.batch_indicator = h.indicator
             /\ session_state.batch_year_range = h.year_range
  /\ pdf # NoPdf =>
       \E h \in history :
         /\ WrittenBy(h)
         /\ pdf.overview = [indicator |-> h.indicator, period |-> h.year_range]
         /\ pdf.chart = [title |-> h.indicator, series |-> h.combined]
         /\ Len(pdf.rows) = Len(h.summary_df)
         /\ \A r \in 1..Len(pdf.rows) : \E k \in 1..Len(pdf.rows[r]) :
              /\ pdf.rows[r][k].column = "Country"
              /\ pdf.rows[r][k].value = h.summary_df[r].Country

C17_Witness ==
  /\ pdf # NoPdf
  /\ pdf.overview.indicator # selected_indicator
  /\ pdf.overview.period # year_range
  /\ \E h, g \in history :
       /\ WrittenBy(h)
       /\ g.run > h.run /\ g.summary_df = <<>>
       /\ g.year_range # h.year_range

(***************************************************************************)
(* C20: in the PDF summary table every data row lists its cells in the     *)
(* column order and with the widths of the header row, so the k-th cell of *)
(* a row holds the value the k-th header names.                            *)
(***************************************************************************)
\* The column of the summary a header names.
ColumnOf(header) ==
  CASE header = "Latest" -> "Latest value"
    [] header = "Year" -> "Latest year"
    [] OTHER -> header

C20_RowsFollowHeader ==
  pdf # NoPdf =>
    \A r \in 1..Len(pdf.rows) :
      /\ Len(pdf.rows[r]) = Len(pdf.header)
      /\ \A k \in 1..Len(pdf.header) :
           /\ pdf.rows[r][k].w = pdf.header[k].w
           /\ pdf.rows[r][k].column = ColumnOf(pdf.header[k].text)

(***************************************************************************)
(* C18: if a country was skipped in one batch run because the source       *)
(* answered with an error payload (a JSON body of fewer than two elements, *)
(* or an empty record list), a later run with the same indicator and year  *)
(* range, made once the source has recovered and holds data inside the     *)
(* range, summarizes that country.                                         *)
(***************************************************************************)
IsErrorPayload(resp) == resp.kind = "json" /\ ItemsOf(resp) = <<>>

C18_RecoveredCountryIsSummarized ==
  [][(pc = "running" /\ i < Len(Configured) /\ progress' # progress) =>
       LET c == Configured[i + 1]
           t == RequestOf(c, IndicatorCode(selected_indicator), year_range)
           log == Got(requests, t)
       IN (/\ log # <<>>
           /\ IsErrorPayload(log[Len(log)])
           /\ Observations(source[c.iso2][t[2]], year_range) # {}) =>
            \E r \in 1..Len(results') : results'[r].Country = c.name]_vars

(***************************************************************************)
(* C19: when every request succeeds but no country has a non-null          *)
(* observation inside the selected year range, Generate Choropleth map     *)
(* ends in "No data returned", not in the failure outcome.                 *)
(***************************************************************************)
AllAnswered ==
  \A k \in 1..Len(Configured) :
    LET resp == source[Configured[k].iso2][indicators[1].code]
    IN Success(resp) /\ Len(resp.raw) >= 2

NoObservation ==
  \A k \in 1..Len(Configured) :
    Observations(source[Configured[k].iso2][indicators[1].code], year_range)
      = {}

C19_NoDataIsNotAFailure ==
  (geo # NoGeo /\ AllAnswered /\ NoObservation) =>
    geo.outcome = "No data returned"

(***************************************************************************)
(* C21: for every list of headlines and every compound score in [-1, 1]    *)
(* of four decimals, each headline gets exactly one label (Positive iff    *)
(* compound > 0.05, Negative iff compound < -0.05, Neutral otherwise), and *)
(* the three summary metrics are the numbers of headlines labelled         *)
(* Positive, Neutral and Negative, which add up to the number of           *)
(* headlines.                                                              *)
(***************************************************************************)
Labelled(label) ==
  Cardinality({k \in 1..Len(sentiment.sentiment_data) :
                 sentiment.sentiment_data[k].Sentiment = label})

C21_MetricsCountTheLabels ==
  sentiment.run =>
    /\ Len(sentiment.sentiment_data) = Len(headlines)
    /\ \A k \in 1..Len(headlines) :
         LET compound == compounds[headlines[k]]
             label == sentiment.sentiment_data[k].Sentiment
         IN /\ label \in {"Positive", "Neutral", "Negative"}
            /\ label = "Positive" <=> compound > 500
            /\ label = "Negative" <=> compound < -500
    /\ sentiment.n_pos = Labelled("Positive")
    /\ sentiment.n_neu = Labelled("Neutral")
    /\ sentiment.n_neg = Labelled("Negative")
    /\ sentiment.n_pos + sentiment.n_neu + sentiment.n_neg = Len(headlines)

(***************************************************************************)
(* C22: for every amount the Amount input accepts (any amount >= 0, 0      *)
(* included) and two different currencies, a successful Frankfurter        *)
(* response makes Convert Currency show the exchange rate and the          *)
(* converted amount, never "Conversion failed"; with two identical         *)
(* currencies no request is issued and only the warning is shown.          *)
(***************************************************************************)
Converts(frank) ==
  /\ frank.kind = "json" /\ frank.status \in 200..299
  /\ "rate" \in DOMAIN frank

C22_SuccessfulResponseIsShown ==
  shown.button = "Convert Currency" =>
    /\ (from_code # to_code /\ Converts(frankfurter)) =>
         shown.outcome = "converted"
    /\ from_code = to_code =>
         shown.outcome = "warning" /\ ~shown.request

(***************************************************************************)
(* C23: for every token list, stopword set and minimum length m in 3..8    *)
(* the cleaned token list is exactly the subsequence of the raw tokens     *)
(* that are no stopwords and have length >= m, in the original order; it   *)
(* is never longer than the raw list, and the unigram counts add up to its *)
(* length.                                                                 *)
(***************************************************************************)
\* The positions of the raw tokens that are to be kept.
Kept ==
  { j \in 1..Len(analysis.all_tokens) :
      /\ analysis.all_tokens[j] \notin stopwords
      /\ Len(analysis.all_tokens[j]) >= min_word_len }

\* The k-th kept position.
KeptAt(k) == CHOOSE j \in Kept : Cardinality({x \in Kept : x < j}) = k - 1

RECURSIVE CountsSum(_, _)
CountsSum(counts, S) ==
  IF S = {} THEN 0
  ELSE LET x == CHOOSE x \in S : TRUE
       IN counts[x] + CountsSum(counts, S \ {x})

C23_CleanTokensAreTheKeptTokens ==
  analysis.run =>
    /\ min_word_len \in MinWordLenMin..MinWordLenMax
    /\ Len(analysis.tokens_clean) = Cardinality(Kept)
    /\ \A k \in 1..Len(analysis.tokens_clean) :
         analysis.tokens_clean[k] = analysis.all_tokens[KeptAt(k)]
    /\ Len(analysis.tokens_clean) <= Len(analysis.all_tokens)
    /\ CountsSum(analysis.counts, DOMAIN analysis.counts)
         = Len(analysis.tokens_clean)

C23_Witness ==
  /\ analysis.run
  /\ Len(analysis.tokens_clean) >= 2
  /\ \E j \in 1..Len(analysis.all_tokens) :
       /\ analysis.all_tokens[j] \in stopwords
       /\ Len(analysis.all_tokens[j]) >= min_word_len
  /\ \E j \in 1..Len(analysis.all_tokens) :
       /\ analysis.all_tokens[j] \notin stopwords
       /\ Len(analysis.all_tokens[j]) < min_word_len
  /\ \E j \in 1..Len(analysis.all_tokens) :
       /\ analysis.all_tokens[j] \notin stopwords
       /\ Len(analysis.all_tokens[j]) = min_word_len

(***************************************************************************)
(* C24: every bigram counted in Step 4 is a pair of words that stand next  *)
(* to each other in one headline (a word and the word that follows it in   *)
(* the text); no bigram joins the last word of a headline with the first   *)
(* word of the next, and none joins two words that a removed stopword or   *)
(* short word separated.                                                   *)
(***************************************************************************)
\* The words of one headline.
WordsOf(headline) == findall(Lower(headline), <<>>)

C24_BigramsAreNeighboursInAHeadline ==
  analysis.run =>
    \A b \in DOMAIN analysis.bigram_counts :
      \E h \in 1..Len(headlines) :
        \E k \in 1..(Len(WordsOf(headlines[h])) - 1) :
          b = <<WordsOf(headlines[h])[k], WordsOf(headlines[h])[k + 1]>>

(***************************************************************************)
(* C25: in the scraping branch "Run fixed scraping algorithm" is offered   *)
(* only in a session in which "Scrape Wikipedia" has been pressed at least *)
(* once, whether that naive attempt succeeded or failed; once set, the     *)
(* flag naive_scrape_run is never cleared by a later interaction.          *)
(***************************************************************************)
C25_FixedScrapeAfterNaiveAttempt ==
  [][/\ ENABLED RunFixedScraping =>
          /\ "naive_scrape_run" \in DOMAIN session_state
          /\ has_api = "No - Scrape it instead"
     /\ shown'.button = "Scrape Wikipedia" =>
          FixedScrapeOffered(session_state')
     /\ shown'.button = "Run fixed scraping algorithm" =>
          FixedScrapeOffered(session_state)
     /\ (~FixedScrapeOffered(session_state)
           /\ FixedScrapeOffered(session_state')) =>
          shown'.button = "Scrape Wikipedia"
     /\ FixedScrapeOffered(session_state) =>
          FixedScrapeOffered(session_state')]_vars

C25_Witness ==
  /\ wikipedia.naive = "403"
  /\ shown.button = "Run fixed scraping algorithm"
  /\ "api_df" \in DOMAIN session_state
  /\ min_word_len # 4

====
